---- MODULE Spec2Model ----
(***************************************************************************)
(* State-machine model of the authentication and authorization subsystem   *)
(* of the book-platform backend: the OTP ledger (security.py), the three   *)
(* principal tables (models.py), the bearer tokens the login handlers      *)
(* issue, the authenticators that resolve a token to a principal, and the  *)
(* role-transition and admin-management handlers of the routers.           *)
(*                                                                         *)
(* One request handler is one atomic action: FastAPI runs a handler and    *)
(* its dependencies to the end on one SQLAlchemy session, and a handler    *)
(* that raises HTTPException before db.commit() leaves the tables as they  *)
(* were.  Every action writes the response it produced to `resp`.          *)
(***************************************************************************)
EXTENDS Integers, Sequences, FiniteSets, TLC

VARIABLES
    users,        \* table users:            id -> row
    publishers,   \* table publishers:       user_id -> number of Publisher rows with it
    book_count,   \* table books, per author: id -> number of books with that author_id
    books,        \* table books:            id -> row
    houses,       \* table publisher_houses: id -> row
    admins,       \* table admins:           id -> row
    tokens,       \* bearer tokens issued so far (claim sets; all signed with SECRET_KEY)
    now,          \* datetime.utcnow(), in minutes
    otp_storage,  \* security.otp_storage:   email -> entry
    otp_hist,     \* history, per email: when it was last stored, the successful
                  \* verify_otp calls since, the code stored and the one before
    resp          \* the last handler's request and response

vars == <<users, publishers, book_count, books, houses, admins, tokens, now,
          otp_storage, otp_hist, resp>>

(***************************************************************************)
(* Bounds of the model.                                                    *)
(***************************************************************************)
MaxUsers == 2
MaxHouses == 1
MaxAdmins == 2
MaxBooks == 3
MaxBookRows == 2
MaxTokens == 2
MaxOtpTime == 8
MaxHits == 2
MaxTime == 100
ClockStep == 100

(***************************************************************************)
(* Program constants.                                                      *)
(***************************************************************************)
OTP_EXPIRE_MINUTES == 5
ACCESS_TOKEN_EXPIRE_MINUTES == 90
MIN_BOOKS_FOR_PUBLISHER == 3
ADMIN_CODE == "ADMIN2024"
DEFAULT_EXPIRE_MINUTES == 15

(***************************************************************************)
(* Strings that the code takes apart (login keys, token subjects) are      *)
(* sequences of chunks; the chunk "publisher_" is the literal the          *)
(* publisher-house login puts in front of the email.  NULL is SQL NULL /   *)
(* Python None: no lookup by value ever matches it.                        *)
(***************************************************************************)
NULL == <<"NULL">>
PUBLISHER_PREFIX == "publisher_"

\* str.startswith("publisher_")
startswith_publisher(s) == Len(s) > 0 /\ s[1] = PUBLISHER_PREFIX

\* str.replace("publisher_", ""): every occurrence goes, not only the leading one
replace_publisher(s) == SelectSeq(s, LAMBDA c : c # PUBLISHER_PREFIX)

\* Values a client may send.
Names == {<<"n1">>, <<"n2">>}
Emails == {<<"e1">>, <<"e2">>}
Codes == {"111111", "222222"}
AdminCodes == {ADMIN_CODE, "admin2024", ""}
\* the four role names the routers use (routers/admin.py:24); models.UserRole of
\* this snapshot lists reader and writer only
Roles == {"reader", "writer", "publisher", "admin"}
UserIds == 1..MaxUsers
HouseIds == 1..MaxHouses
AdminIds == 1..MaxAdmins
BookIds == 1..MaxBookRows

(***************************************************************************)
(* The response record: the handler (op), its inputs (key, val, target),   *)
(* the HTTP status and detail, and the principal an authenticator          *)
(* resolved (kind, id).                                                    *)
(***************************************************************************)
Resp(op, key, val, target, status, detail, kind, id) ==
    [op |-> op, key |-> key, val |-> val, target |-> target,
     status |-> status, detail |-> detail, kind |-> kind, id |-> id]

NoResp == Resp("init", NULL, "", 0, 0, "", "none", 0)

(***************************************************************************)
(* OTP ledger: security.py (and the identical auth.py).                    *)
(***************************************************************************)
NoOtp == [present |-> FALSE, otp |-> "", expires_at |-> 0]

\* no store_otp call for the email yet
NoHist == [stored_at |-> 0, hits |-> 0, issued |-> "", prev |-> ""]

\* store_otp that keeps an entry the email already has
store_otp_keep_first(storage, email, otp, t) ==
    IF storage[email].present THEN storage
    ELSE [storage EXCEPT ![email] =
            [present |-> TRUE, otp |-> otp, expires_at |-> t + OTP_EXPIRE_MINUTES]]

\* store_otp(email, otp): otp_storage[email] = {otp, utcnow() + 5 min}
store_otp(storage, email, otp, t) ==
    [storage EXCEPT ![email] =
        [present |-> TRUE, otp |-> otp, expires_at |-> t + OTP_EXPIRE_MINUTES]]

\* verify_otp with the `del` after a match left out
verify_otp_no_consume(storage, email, otp, t) ==
    IF ~storage[email].present
    THEN <<FALSE, storage>>
    ELSE IF t > storage[email].expires_at
    THEN <<FALSE, [storage EXCEPT ![email] = NoOtp]>>
    ELSE IF storage[email].otp = otp
    THEN <<TRUE, storage>>
    ELSE <<FALSE, storage>>

\* verify_otp with the `del` of an expired entry left out
verify_otp_keep_expired(storage, email, otp, t) ==
    IF ~storage[email].present
    THEN <<FALSE, storage>>
    ELSE IF t > storage[email].expires_at
    THEN <<FALSE, storage>>
    ELSE IF storage[email].otp = otp
    THEN <<TRUE, [storage EXCEPT ![email] = NoOtp]>>
    ELSE <<FALSE, storage>>

\* verify_otp that drops the entry after a wrong code as well
verify_otp_one_attempt(storage, email, otp, t) ==
    IF ~storage[email].present
    THEN <<FALSE, storage>>
    ELSE IF t > storage[email].expires_at
    THEN <<FALSE, [storage EXCEPT ![email] = NoOtp]>>
    ELSE IF storage[email].otp = otp
    THEN <<TRUE, [storage EXCEPT ![email] = NoOtp]>>
    ELSE <<FALSE, [storage EXCEPT ![email] = NoOtp]>>

\* verify_otp(email, otp): <<returned value, otp_storage afterwards>>
verify_otp(storage, email, otp, t) ==
    IF ~storage[email].present
    THEN <<FALSE, storage>>
    ELSE IF t > storage[email].expires_at
    THEN <<FALSE, [storage EXCEPT ![email] = NoOtp]>>
    ELSE IF storage[email].otp = otp
    THEN <<TRUE, [storage EXCEPT ![email] = NoOtp]>>
    ELSE <<FALSE, storage>>

UnchangedTables == UNCHANGED <<users, publishers, book_count, books, houses, admins, tokens>>

\* POST /send-otp: generate_otp() draws the code at random
send_otp(email) ==
    \E otp \in Codes :
        /\ otp_storage' = store_otp(otp_storage, email, otp, now)
        /\ otp_hist' = [otp_hist EXCEPT ![email] =
                            [stored_at |-> now, hits |-> 0, issued |-> otp,
                             prev |-> otp_hist[email].issued]]
        /\ resp' = Resp("send_otp", email, otp, 0, 200, "OTP sent successfully", "none", 0)
        /\ UNCHANGED now
        /\ UnchangedTables

\* POST /verify-otp
verify_otp_endpoint(email, otp) ==
    LET r == verify_otp(otp_storage, email, otp, now) IN
        /\ otp_storage' = r[2]
        /\ otp_hist' = [otp_hist EXCEPT ![email].hits =
                            IF r[1] /\ @ < MaxHits THEN @ + 1 ELSE @]
        /\ resp' = IF r[1]
                   THEN Resp("verify_otp", email, otp, 0, 200, "OTP verified successfully", "none", 0)
                   ELSE Resp("verify_otp", email, otp, 0, 400, "Invalid or expired OTP", "none", 0)
        /\ UNCHANGED now
        /\ UnchangedTables

\* The clock of the OTP ledger advances by one minute.
TickMinute ==
    /\ now < MaxOtpTime
    /\ now' = now + 1
    /\ resp' = Resp("tick", NULL, "", 0, 0, "", "none", 0)
    /\ UNCHANGED <<otp_storage, otp_hist>>
    /\ UnchangedTables

\* Optional[float] = None: no price given
NoPrice == -1

\* a row of table books as books.create_book_with_file fills it; 0 is a NULL id
NoBook == [present |-> FALSE, title |-> "", is_free |-> FALSE, price |-> NoPrice,
           author_name |-> NULL, author_id |-> 0, publisher_house_id |-> 0,
           cover_image |-> "", book_file |-> ""]

NoUser == [present |-> FALSE, username |-> NULL, email |-> NULL,
           role |-> "reader", is_active |-> FALSE]
NoHouse == [present |-> FALSE, name |-> NULL, email |-> NULL,
            is_active |-> FALSE, is_verified |-> FALSE]
NoAdmin == [present |-> FALSE, username |-> NULL, email |-> NULL, phone_number |-> NULL,
            role |-> "super_admin", is_active |-> FALSE, is_super_admin |-> FALSE,
            can_manage_users |-> FALSE, can_manage_publishers |-> FALSE,
            can_manage_content |-> FALSE, can_manage_system |-> FALSE]

InitOtp ==
    /\ users = [i \in UserIds |-> NoUser]
    /\ publishers = [i \in UserIds |-> 0]
    /\ book_count = [i \in UserIds |-> 0]
    /\ books = [b \in BookIds |-> NoBook]
    /\ houses = [i \in HouseIds |-> NoHouse]
    /\ admins = [i \in AdminIds |-> NoAdmin]
    /\ tokens = {}
    /\ now = 0
    /\ otp_storage = [e \in Emails |-> NoOtp]
    /\ otp_hist = [e \in Emails |-> NoHist]
    /\ resp = NoResp

NextOtp ==
    \/ \E email \in Emails : send_otp(email)
    \/ \E email \in Emails, otp \in Codes : verify_otp_endpoint(email, otp)
    \/ TickMinute

SpecOtp == InitOtp /\ [][NextOtp]_vars

(***************************************************************************)
(* C3: a verify_otp call returns true exactly when, before the call, an    *)
(* entry for the email exists, is unexpired and holds the given code, and  *)
(* then the entry is deleted; so between two store_otp calls for an email  *)
(* at most one verify_otp call for it returns true.                        *)
(***************************************************************************)
C3_VerifyStep ==
    resp'.op = "verify_otp" =>
        LET e == resp'.key
            live == /\ otp_storage[e].present
                    /\ now <= otp_storage[e].expires_at
                    /\ otp_storage[e].otp = resp'.val
        IN  /\ (resp'.status = 200) <=> live
            /\ live => ~otp_storage'[e].present

C3_VerifyOnce ==
    /\ [][C3_VerifyStep]_vars
    /\ [](\A e \in Emails : otp_hist[e].hits <= 1)

\* a second verify with no store in between has failed after the first succeeded
C3_Witness ==
    /\ resp.op = "verify_otp"
    /\ resp.status = 400
    /\ otp_hist[resp.key].hits = 1
    /\ ~otp_storage[resp.key].present

(***************************************************************************)
(* C10: a verify_otp call made more than 5 minutes after the entry of the  *)
(* email was stored returns false whatever the code, the stored code       *)
(* included, and removes the entry.                                        *)
(***************************************************************************)
C10_ExpiredStep ==
    (/\ resp'.op = "verify_otp"
     /\ otp_storage[resp'.key].present
     /\ now - otp_hist[resp'.key].stored_at > 5)
        => /\ resp'.status = 400
           /\ ~otp_storage'[resp'.key].present

C10_Expiry == [][C10_ExpiredStep]_vars

\* the stored code was presented after expiry, refused, and the entry is gone
C10_Witness ==
    /\ resp.op = "verify_otp"
    /\ resp.status = 400
    /\ ~otp_storage[resp.key].present
    /\ otp_hist[resp.key].hits = 0
    /\ now - otp_hist[resp.key].stored_at > 5

(***************************************************************************)
(* Bearer tokens: security.create_access_token / jose.jwt.                 *)
(* A token is its claim set; all are signed with the one SECRET_KEY.  A    *)
(* claim the login handler does not put in the data dict is "none".        *)
(***************************************************************************)
Claims(sub, entity_type, role, is_super_admin) ==
    [sub |-> sub, entity_type |-> entity_type, role |-> role,
     is_super_admin |-> is_super_admin, exp |-> 0]

\* create_access_token that always takes the default lifetime
create_access_token_default_ttl(data, expires_delta, t) ==
    [data EXCEPT !.exp = t + DEFAULT_EXPIRE_MINUTES]

\* create_access_token(data, expires_delta): to_encode.update({"exp": utcnow() + delta});
\* an expires_delta of None or of zero length is falsy and gives the default
create_access_token(data, expires_delta, t) ==
    IF expires_delta # 0
    THEN [data EXCEPT !.exp = t + expires_delta]
    ELSE [data EXCEPT !.exp = t + DEFAULT_EXPIRE_MINUTES]

\* jwt.decode(token, SECRET_KEY, algorithms=[ALGORITHM]) returns the payload;
\* it raises (a JWTError) when exp lies in the past
jwt_decode_ok(token, t) == ~(token.exp < t)

\* the JWTError that jwt.decode raises
JWTError == [error |-> "JWTError"]

\* jwt.decode(token, SECRET_KEY, algorithms=[ALGORITHM]): the payload, or JWTError
jwt_decode(token, t) == IF jwt_decode_ok(token, t) THEN token ELSE JWTError

\* what a dependency hands to the handler, or the HTTPException it raised
AuthOut(status, detail, kind, id) ==
    [status |-> status, detail |-> detail, kind |-> kind, id |-> id]

credentials_exception == AuthOut(401, "Could not validate credentials", "none", 0)

\* db.query(User).filter(User.email == e).first(); 0 for None
UserByEmail(e) ==
    IF \E i \in UserIds : users[i].present /\ users[i].email # NULL /\ users[i].email = e
    THEN CHOOSE i \in UserIds : users[i].present /\ users[i].email # NULL /\ users[i].email = e
    ELSE 0

\* db.query(User).filter(User.username == n).first(); 0 for None
UserByUsername(n) ==
    IF \E i \in UserIds : users[i].present /\ users[i].username = n
    THEN CHOOSE i \in UserIds : users[i].present /\ users[i].username = n
    ELSE 0

\* security.get_current_user: the subject is looked up in users.email
get_current_user(token) ==
    IF ~jwt_decode_ok(token, now) THEN credentials_exception
    ELSE IF token.sub = NULL THEN credentials_exception
    ELSE IF UserByEmail(token.sub) = 0 THEN credentials_exception
    ELSE AuthOut(200, "", "user", UserByEmail(token.sub))

\* security.get_current_active_user
get_current_active_user(token) ==
    LET cur == get_current_user(token) IN
        IF cur.status # 200 THEN cur
        ELSE IF ~users[cur.id].is_active THEN AuthOut(400, "Inactive user", "none", 0)
        ELSE cur

\* security.check_admin_role()
check_admin_role(token) ==
    LET cur == get_current_active_user(token) IN
        IF cur.status # 200 THEN cur
        ELSE IF users[cur.id].role # "admin"
        THEN AuthOut(403, "Operation requires admin role", "none", 0)
        ELSE cur

\* the response of a handler whose dependency raised: the handler's body, and
\* with it the request's other parameters, played no part
Raised(op, token, val, target, out) ==
    Resp(op, token.sub, "", 0, out.status, out.detail, "none", 0)

\* a new token is handed to a client; the model keeps at most MaxTokens of them
Issue(token) ==
    /\ token \in tokens \/ Cardinality(tokens) < MaxTokens
    /\ tokens' = tokens \cup {token}

(***************************************************************************)
(* User registration, login and role transitions:                          *)
(* routers/auth.py, routers/users.py, routers/admin.py, routers/books.py,  *)
(* routers/publishers.py.                                                  *)
(***************************************************************************)
\* the id a new row gets: the database is SQLite (config.py: DATABASE_URL), whose
\* INTEGER PRIMARY KEY is one more than the largest id in use
NewRowId(ids, used) ==
    {i \in ids : /\ \A j \in used : j < i
                 /\ \A k \in ids : (\A j \in used : j < k) => i <= k}

FreeUserIds == NewRowId(UserIds, {i \in UserIds : users[i].present})

UnchangedOtp == UNCHANGED <<otp_storage, otp_hist>>

\* auth.register_user: POST /register (the phone-number check is not modelled)
register_user(username, role) ==
    /\ UNCHANGED <<publishers, book_count, books, houses, admins, tokens, now>>
    /\ UnchangedOtp
    /\ IF UserByUsername(username) # 0
       THEN /\ resp' = Resp("register_user", username, role, 0, 400,
                            "Username already registered", "none", 0)
            /\ UNCHANGED users
       ELSE IF role = "admin"
       THEN /\ resp' = Resp("register_user", username, role, 0, 403,
                            "Admin registration is not allowed through this endpoint",
                            "none", 0)
            /\ UNCHANGED users
       ELSE \E i \in FreeUserIds :
            /\ users' = [users EXCEPT ![i] =
                            [present |-> TRUE, username |-> username, email |-> NULL,
                             role |-> role, is_active |-> TRUE]]
            /\ resp' = Resp("register_user", username, role, i, 200, "", "user", i)

\* auth.login_for_access_token: POST /login; pw_ok is verify_password's answer
login_for_access_token(username, pw_ok) ==
    /\ UNCHANGED <<users, publishers, book_count, books, houses, admins, now>>
    /\ UnchangedOtp
    /\ IF UserByUsername(username) = 0 \/ ~pw_ok
       THEN /\ resp' = Resp("login", username, "", 0, 401,
                            "Incorrect username or password", "none", 0)
            /\ UNCHANGED tokens
       ELSE /\ Issue(create_access_token(Claims(username, "none", "none", "none"),
                                         ACCESS_TOKEN_EXPIRE_MINUTES, now))
            /\ resp' = Resp("login", username, "", 0, 200, "", "user",
                            UserByUsername(username))

\* auth.upgrade_to_writer: POST /upgrade-to-writer
upgrade_to_writer(token) ==
    LET cur == get_current_active_user(token) IN
    /\ UNCHANGED <<publishers, book_count, books, houses, admins, tokens, now>>
    /\ UnchangedOtp
    /\ IF cur.status # 200
       THEN resp' = Raised("upgrade_to_writer", token, "", 0, cur) /\ UNCHANGED users
       ELSE IF users[cur.id].role # "reader"
       THEN /\ resp' = Resp("upgrade_to_writer", token.sub, "", 0, 400,
                            "Only readers can upgrade to writer role", "user", cur.id)
            /\ UNCHANGED users
       ELSE /\ users' = [users EXCEPT ![cur.id].role = "writer"]
            /\ resp' = Resp("upgrade_to_writer", token.sub, "", 0, 200, "", "user", cur.id)

\* auth.upgrade_to_publisher with the book-count guard left out
auth_upgrade_to_publisher_unguarded(token) ==
    LET cur == get_current_active_user(token) IN
    /\ UNCHANGED <<publishers, book_count, books, houses, admins, tokens, now>>
    /\ UnchangedOtp
    /\ IF cur.status # 200
       THEN resp' = Raised("auth.upgrade_to_publisher", token, "", 0, cur) /\ UNCHANGED users
       ELSE IF users[cur.id].role # "writer"
       THEN /\ resp' = Resp("auth.upgrade_to_publisher", token.sub, "", 0, 400,
                            "Only writers can upgrade to publisher role", "user", cur.id)
            /\ UNCHANGED users
       ELSE /\ users' = [users EXCEPT ![cur.id].role = "publisher"]
            /\ resp' = Resp("auth.upgrade_to_publisher", token.sub, "", 0, 200, "",
                            "user", cur.id)

\* auth.upgrade_to_publisher: POST /upgrade-to-publisher
auth_upgrade_to_publisher(token) ==
    LET cur == get_current_active_user(token) IN
    /\ UNCHANGED <<publishers, book_count, books, houses, admins, tokens, now>>
    /\ UnchangedOtp
    /\ IF cur.status # 200
       THEN resp' = Raised("auth.upgrade_to_publisher", token, "", 0, cur) /\ UNCHANGED users
       ELSE IF users[cur.id].role # "writer"
       THEN /\ resp' = Resp("auth.upgrade_to_publisher", token.sub, "", 0, 400,
                            "Only writers can upgrade to publisher role", "user", cur.id)
            /\ UNCHANGED users
       ELSE IF book_count[cur.id] < MIN_BOOKS_FOR_PUBLISHER
       THEN /\ resp' = Resp("auth.upgrade_to_publisher", token.sub, "", 0, 400,
                            "Must have published at least 3 books to become a publisher",
                            "user", cur.id)
            /\ UNCHANGED users
       ELSE /\ users' = [users EXCEPT ![cur.id].role = "publisher"]
            /\ resp' = Resp("auth.upgrade_to_publisher", token.sub, "", 0, 200, "",
                            "user", cur.id)

\* database.get_db: the session of a request that ends in an exception is closed
\* without a commit, and the table is as it was stored, not as the handler left
\* its pending copy
session_close(stored, pending) == stored

\* users.upgrade_to_publisher with the role assignment stored although the
\* request ends in the HTTPException
users_upgrade_to_publisher_flushed(token) ==
    LET cur == get_current_active_user(token) IN
    /\ UNCHANGED <<book_count, books, houses, admins, tokens, now>>
    /\ UnchangedOtp
    /\ IF cur.status # 200
       THEN /\ resp' = Raised("users.upgrade_to_publisher", token, "", 0, cur)
            /\ UNCHANGED <<users, publishers>>
       ELSE IF users[cur.id].role = "publisher"
       THEN /\ resp' = Resp("users.upgrade_to_publisher", token.sub, "", 0, 400,
                            "User is already a publisher", "user", cur.id)
            /\ UNCHANGED <<users, publishers>>
       ELSE IF book_count[cur.id] < MIN_BOOKS_FOR_PUBLISHER
       THEN /\ resp' = Resp("users.upgrade_to_publisher", token.sub, "", 0, 400,
                            "Must have at least 3 books to become a publisher",
                            "user", cur.id)
            /\ UNCHANGED <<users, publishers>>
       ELSE IF publishers[cur.id] > 0
       THEN /\ resp' = Resp("users.upgrade_to_publisher", token.sub, "", 0, 400,
                            "Publisher record already exists for this user",
                            "user", cur.id)
            /\ users' = [users EXCEPT ![cur.id].role = "publisher"]
            /\ UNCHANGED publishers
       ELSE /\ users' = [users EXCEPT ![cur.id].role = "publisher"]
            /\ publishers' = [publishers EXCEPT ![cur.id] = @ + 1]
            /\ resp' = Resp("users.upgrade_to_publisher", token.sub, "", 0, 200,
                            "User upgraded to publisher", "user", cur.id)

\* users.upgrade_to_publisher: POST /users/upgrade-to-publisher.  The role is
\* assigned on the session before the Publisher lookup; the HTTPException raised
\* after it ends the request without a commit, so the assignment is not stored.
users_upgrade_to_publisher(token) ==
    LET cur == get_current_active_user(token) IN
    /\ UNCHANGED <<book_count, books, houses, admins, tokens, now>>
    /\ UnchangedOtp
    /\ IF cur.status # 200
       THEN /\ resp' = Raised("users.upgrade_to_publisher", token, "", 0, cur)
            /\ UNCHANGED <<users, publishers>>
       ELSE IF users[cur.id].role = "publisher"
       THEN /\ resp' = Resp("users.upgrade_to_publisher", token.sub, "", 0, 400,
                            "User is already a publisher", "user", cur.id)
            /\ UNCHANGED <<users, publishers>>
       ELSE IF book_count[cur.id] < MIN_BOOKS_FOR_PUBLISHER
       THEN /\ resp' = Resp("users.upgrade_to_publisher", token.sub, "", 0, 400,
                            "Must have at least 3 books to become a publisher",
                            "user", cur.id)
            /\ UNCHANGED <<users, publishers>>
       ELSE IF publishers[cur.id] > 0
       THEN /\ resp' = Resp("users.upgrade_to_publisher", token.sub, "", 0, 400,
                            "Publisher record already exists for this user",
                            "user", cur.id)
            /\ users' = session_close(users, [users EXCEPT ![cur.id].role = "publisher"])
            /\ UNCHANGED publishers
       ELSE /\ users' = [users EXCEPT ![cur.id].role = "publisher"]
            /\ publishers' = [publishers EXCEPT ![cur.id] = @ + 1]
            /\ resp' = Resp("users.upgrade_to_publisher", token.sub, "", 0, 200,
                            "User upgraded to publisher", "user", cur.id)

ManageActions == {"activate", "deactivate", "change_role", "delete", "promote"}
NewRoles == Roles \cup {"", "editor"}
\* UserManagement.new_role is optional and read only by change_role
NewRolesFor(action) == IF action = "change_role" THEN NewRoles ELSE {""}

\* admin.manage_user: PUT /users/{user_id}/manage.  UserRole(new_role) raises
\* ValueError for a string that names no role.
manage_user(token, user_id, action, new_role) ==
    LET cur == check_admin_role(token) IN
    /\ UNCHANGED <<publishers, houses, admins, tokens, now>>
    /\ UnchangedOtp
    /\ IF cur.status # 200
       THEN /\ resp' = Raised("manage_user", token, action, user_id, cur)
            /\ UNCHANGED <<users, book_count, books>>
       ELSE IF ~users[user_id].present
       THEN /\ resp' = Resp("manage_user", token.sub, action, user_id, 404,
                            "User not found", "user", cur.id)
            /\ UNCHANGED <<users, book_count, books>>
       ELSE IF user_id = cur.id
       THEN /\ resp' = Resp("manage_user", token.sub, action, user_id, 400,
                            "Cannot manage your own account", "user", cur.id)
            /\ UNCHANGED <<users, book_count, books>>
       ELSE IF action = "activate"
       THEN /\ users' = [users EXCEPT ![user_id].is_active = TRUE]
            /\ resp' = Resp("manage_user", token.sub, action, user_id, 200,
                            "User activated", "user", cur.id)
            /\ UNCHANGED <<book_count, books>>
       ELSE IF action = "deactivate"
       THEN /\ users' = [users EXCEPT ![user_id].is_active = FALSE]
            /\ resp' = Resp("manage_user", token.sub, action, user_id, 200,
                            "User deactivated", "user", cur.id)
            /\ UNCHANGED <<book_count, books>>
       ELSE IF action = "change_role"
       THEN IF new_role = ""
            THEN /\ resp' = Resp("manage_user", token.sub, action, user_id, 400,
                                 "New role is required for change_role action",
                                 "user", cur.id)
                 /\ UNCHANGED <<users, book_count, books>>
            ELSE IF new_role \notin Roles
            THEN /\ resp' = Resp("manage_user", token.sub, action, user_id, 400,
                                 "Invalid role", "user", cur.id)
                 /\ UNCHANGED <<users, book_count, books>>
            ELSE /\ users' = [users EXCEPT ![user_id].role = new_role]
                 /\ resp' = Resp("manage_user", token.sub, action, user_id, 200,
                                 "User role changed", "user", cur.id)
                 /\ UNCHANGED <<book_count, books>>
       ELSE IF action = "delete"
       THEN \* db.delete(user): the user's books lose their author_id
            /\ users' = [users EXCEPT ![user_id] = NoUser]
            /\ book_count' = [book_count EXCEPT ![user_id] = 0]
            /\ books' = [b \in BookIds |->
                            IF books[b].present /\ books[b].author_id = user_id
                            THEN [books[b] EXCEPT !.author_id = 0]
                            ELSE books[b]]
            /\ resp' = Resp("manage_user", token.sub, action, user_id, 200,
                            "User deleted", "user", cur.id)
       ELSE /\ resp' = Resp("manage_user", token.sub, action, user_id, 400,
                            "Invalid action", "user", cur.id)
            /\ UNCHANGED <<users, book_count, books>>

\* books.create_book_with_file: POST /books/with-file, for a request that passes
\* the file, category, price and title checks and names an author.  Only a
\* writer's book gets author_id = current_user.id.
create_book_with_file(token) ==
    LET cur == get_current_active_user(token) IN
    /\ UNCHANGED <<users, publishers, houses, admins, tokens, now>>
    /\ UnchangedOtp
    /\ IF cur.status # 200
       THEN /\ resp' = Raised("create_book_with_file", token, "", 0, cur)
            /\ UNCHANGED <<book_count, books>>
       ELSE IF users[cur.id].role = "writer"
       THEN /\ book_count[cur.id] < MaxBooks
            /\ book_count' = [book_count EXCEPT ![cur.id] = @ + 1]
            /\ UNCHANGED books
            /\ resp' = Resp("create_book_with_file", token.sub, "", cur.id, 200, "",
                            "user", cur.id)
       ELSE /\ resp' = Resp("create_book_with_file", token.sub, "", 0, 200, "",
                            "user", cur.id)
            /\ UNCHANGED <<book_count, books>>

\* books.delete_book: DELETE /books/{book_id}, for a book whose author_id is
\* author (404 when that user has no book)
delete_book(token, author) ==
    LET cur == get_current_active_user(token) IN
    /\ UNCHANGED <<users, publishers, houses, admins, tokens, now>>
    /\ UnchangedOtp
    /\ IF cur.status # 200
       THEN /\ resp' = Raised("delete_book", token, "", author, cur)
            /\ UNCHANGED <<book_count, books>>
       ELSE IF book_count[author] = 0
       THEN /\ resp' = Resp("delete_book", token.sub, "", author, 404,
                            "Book not found", "user", cur.id)
            /\ UNCHANGED <<book_count, books>>
       ELSE IF author # cur.id /\ users[cur.id].role # "admin"
       THEN /\ resp' = Resp("delete_book", token.sub, "", author, 403,
                            "Not authorized to delete this book", "user", cur.id)
            /\ UNCHANGED <<book_count, books>>
       ELSE /\ book_count' = [book_count EXCEPT ![author] = @ - 1]
            /\ UNCHANGED books
            /\ resp' = Resp("delete_book", token.sub, "", author, 200,
                            "Book deleted successfully", "user", cur.id)

\* publishers.delete_publisher: DELETE /publishers/{publisher_id}, for the
\* Publisher row that users.upgrade_to_publisher made for user_id
delete_publisher(token, user_id) ==
    LET cur == get_current_active_user(token) IN
    /\ UNCHANGED <<users, book_count, books, houses, admins, tokens, now>>
    /\ UnchangedOtp
    /\ IF cur.status # 200
       THEN /\ resp' = Raised("delete_publisher", token, "", user_id, cur)
            /\ UNCHANGED publishers
       ELSE IF users[cur.id].role # "admin"
       THEN /\ resp' = Resp("delete_publisher", token.sub, "", user_id, 403,
                            "Only admins can delete publishers", "user", cur.id)
            /\ UNCHANGED publishers
       ELSE IF publishers[user_id] = 0
       THEN /\ resp' = Resp("delete_publisher", token.sub, "", user_id, 404,
                            "Publisher not found", "user", cur.id)
            /\ UNCHANGED publishers
       ELSE /\ publishers' = [publishers EXCEPT ![user_id] = @ - 1]
            /\ resp' = Resp("delete_publisher", token.sub, "", user_id, 200,
                            "Publisher deleted successfully", "user", cur.id)

(***************************************************************************)
(* The users table the role handlers start from.  security.get_current_user *)
(* resolves a token's subject against users.email while the login handlers  *)
(* put the username in the subject, and no handler writes users.email: a    *)
(* user authenticates only if the table already holds a row whose email is  *)
(* the subject.  The table starts with two such rows, an ordinary user and  *)
(* an admin-role user, whose email equals their username.                   *)
(***************************************************************************)
SeedUser(name, role) ==
    [present |-> TRUE, username |-> name, email |-> name, role |-> role,
     is_active |-> TRUE]

InitRole ==
    /\ \E r \in {"reader", "writer", "publisher"} :
         users = [i \in UserIds |->
                    IF i = 1 THEN SeedUser(<<"n1">>, r)
                    ELSE IF i = 2 THEN SeedUser(<<"n2">>, "admin")
                    ELSE NoUser]
    /\ publishers = [i \in UserIds |-> 0]
    /\ book_count = [i \in UserIds |-> 0]
    /\ books = [b \in BookIds |-> NoBook]
    /\ houses = [i \in HouseIds |-> NoHouse]
    /\ admins = [i \in AdminIds |-> NoAdmin]
    /\ tokens = {}
    /\ now = 0
    /\ otp_storage = [e \in Emails |-> NoOtp]
    /\ otp_hist = [e \in Emails |-> NoHist]
    /\ resp = NoResp

NextRole ==
    \/ \E n \in Names, r \in Roles : register_user(n, r)
    \/ \E n \in Names, ok \in BOOLEAN : login_for_access_token(n, ok)
    \/ \E t \in tokens : upgrade_to_writer(t)
    \/ \E t \in tokens : auth_upgrade_to_publisher(t)
    \/ \E t \in tokens : users_upgrade_to_publisher(t)
    \/ \E t \in tokens, i \in UserIds, a \in ManageActions :
          \E r \in NewRolesFor(a) : manage_user(t, i, a, r)
    \/ \E t \in tokens : create_book_with_file(t)
    \/ \E t \in tokens, i \in UserIds : delete_book(t, i)
    \/ \E t \in tokens, i \in UserIds : delete_publisher(t, i)

SpecRole == InitRole /\ [][NextRole]_vars

(***************************************************************************)
(* Role transitions (SpecRole)                                              *)
(***************************************************************************)
UpgradeToPublisherOps == {"auth.upgrade_to_publisher", "users.upgrade_to_publisher"}

\* C4 (as the specification states it): whenever an authenticated writer calls
\* a writer-to-publisher handler, the call succeeds and stores role publisher
\* if the writer has at least 3 books, and otherwise answers 400 and leaves
\* the stored role as it was.
C4_UpgradeStep ==
    \A i \in UserIds :
        ( /\ resp'.op \in UpgradeToPublisherOps
          /\ resp'.kind = "user"
          /\ resp'.id = i
          /\ users[i].role = "writer" )
        => IF book_count[i] >= 3
           THEN resp'.status = 200 /\ users'[i].role = "publisher"
           ELSE resp'.status = 400 /\ users'[i].role = "writer"

RoleChanged(i) ==
    users[i].present /\ users'[i].present /\ users'[i].role # users[i].role

\* C5 (as the specification states it): every change of a stored role is
\* reader to writer or writer to publisher.
C5_ForwardStep ==
    \A i \in UserIds :
        RoleChanged(i) =>
            \/ users[i].role = "reader" /\ users'[i].role = "writer"
            \/ users[i].role = "writer" /\ users'[i].role = "publisher"

C5_RoleChangeStep ==
    \A i \in UserIds :
        RoleChanged(i) =>
            \/ /\ resp'.op = "upgrade_to_writer"
               /\ resp'.id = i
               /\ users[i].role = "reader" /\ users'[i].role = "writer"
            \/ /\ resp'.op = "auth.upgrade_to_publisher"
               /\ resp'.id = i
               /\ book_count[i] >= 3
               /\ users[i].role = "writer" /\ users'[i].role = "publisher"
            \/ /\ resp'.op = "users.upgrade_to_publisher"
               /\ resp'.id = i
               /\ book_count[i] >= 3
               /\ users'[i].role = "publisher"
            \/ /\ resp'.op = "manage_user"
               /\ resp'.val = "change_role"
               /\ resp'.target = i
               /\ resp'.id # i
               /\ users[resp'.id].role = "admin"

Phones == {NULL, <<"p1">>}

FreeAdminIds == NewRowId(AdminIds, {i \in AdminIds : admins[i].present})

\* db.query(Admin).filter(Admin.username == n).first(); 0 for None
AdminByUsername(n) ==
    IF \E i \in AdminIds : admins[i].present /\ admins[i].username = n
    THEN CHOOSE i \in AdminIds : admins[i].present /\ admins[i].username = n
    ELSE 0

\* db.query(Admin).filter(Admin.email == e).first(); 0 for None
AdminByEmail(e) ==
    IF \E i \in AdminIds : admins[i].present /\ admins[i].email = e
    THEN CHOOSE i \in AdminIds : admins[i].present /\ admins[i].email = e
    ELSE 0

\* an Admin row created with the column defaults of models.Admin
NewAdmin_column_defaults(username, email, phone_number) ==
    [present |-> TRUE, username |-> username, email |-> email,
     phone_number |-> phone_number, role |-> "content_admin", is_active |-> TRUE,
     is_super_admin |-> FALSE, can_manage_users |-> FALSE,
     can_manage_publishers |-> FALSE, can_manage_content |-> FALSE,
     can_manage_system |-> FALSE]

NewAdmin(username, email, phone_number) ==
    [present |-> TRUE, username |-> username, email |-> email,
     phone_number |-> phone_number, role |-> "super_admin", is_active |-> TRUE,
     is_super_admin |-> TRUE, can_manage_users |-> TRUE,
     can_manage_publishers |-> TRUE, can_manage_content |-> TRUE,
     can_manage_system |-> TRUE]

\* admin_auth.get_current_admin
get_current_admin(token) ==
    IF ~jwt_decode_ok(token, now) THEN credentials_exception
    ELSE IF token.sub = NULL \/ token.entity_type # "admin" THEN credentials_exception
    ELSE IF AdminByUsername(token.sub) = 0 THEN credentials_exception
    ELSE AuthOut(200, "", "admin", AdminByUsername(token.sub))

\* admin_auth.register_admin with the username and email lookups made before
\* the admin code is compared
admin_register_admin_lookup_first(username, email, phone_number, admin_code) ==
    /\ UNCHANGED <<users, publishers, book_count, books, houses, tokens, now>>
    /\ UnchangedOtp
    /\ IF AdminByUsername(username) # 0
       THEN /\ resp' = Resp("admin_auth.register_admin", username, admin_code, 0, 400,
                            "Username already registered", "none", 0)
            /\ UNCHANGED admins
       ELSE IF AdminByEmail(email) # 0
       THEN /\ resp' = Resp("admin_auth.register_admin", username, admin_code, 0, 400,
                            "Email already registered", "none", 0)
            /\ UNCHANGED admins
       ELSE IF admin_code = ""
       THEN /\ resp' = Resp("admin_auth.register_admin", username, admin_code, 0, 403,
                            "Admin code is required", "none", 0)
            /\ UNCHANGED admins
       ELSE IF admin_code # ADMIN_CODE
       THEN /\ resp' = Resp("admin_auth.register_admin", username, admin_code, 0, 403,
                            "Invalid admin code", "none", 0)
            /\ UNCHANGED admins
       ELSE \E i \in FreeAdminIds :
            /\ admins' = [admins EXCEPT ![i] = NewAdmin(username, email, phone_number)]
            /\ resp' = Resp("admin_auth.register_admin", username, admin_code, i, 200, "",
                            "admin", i)

\* admin_auth.register_admin: POST /admin/register
admin_register_admin(username, email, phone_number, admin_code) ==
    /\ UNCHANGED <<users, publishers, book_count, books, houses, tokens, now>>
    /\ UnchangedOtp
    /\ IF admin_code = ""
       THEN /\ resp' = Resp("admin_auth.register_admin", username, admin_code, 0, 403,
                            "Admin code is required", "none", 0)
            /\ UNCHANGED admins
       ELSE IF admin_code # ADMIN_CODE
       THEN /\ resp' = Resp("admin_auth.register_admin", username, admin_code, 0, 403,
                            "Invalid admin code", "none", 0)
            /\ UNCHANGED admins
       ELSE IF AdminByUsername(username) # 0
       THEN /\ resp' = Resp("admin_auth.register_admin", username, admin_code, 0, 400,
                            "Username already registered", "none", 0)
            /\ UNCHANGED admins
       ELSE IF AdminByEmail(email) # 0
       THEN /\ resp' = Resp("admin_auth.register_admin", username, admin_code, 0, 400,
                            "Email already registered", "none", 0)
            /\ UNCHANGED admins
       ELSE \E i \in FreeAdminIds :
            /\ admins' = [admins EXCEPT ![i] = NewAdmin(username, email, phone_number)]
            /\ resp' = Resp("admin_auth.register_admin", username, admin_code, i, 200, "",
                            "admin", i)

\* auth.register_admin: POST /register/admin?admin_code=... (the phone-number
\* check is not modelled)
auth_register_admin(username, admin_code) ==
    /\ UNCHANGED <<publishers, book_count, books, houses, admins, tokens, now>>
    /\ UnchangedOtp
    /\ IF admin_code # ADMIN_CODE
       THEN /\ resp' = Resp("auth.register_admin", username, admin_code, 0, 403,
                            "Invalid admin code", "none", 0)
            /\ UNCHANGED users
       ELSE IF UserByUsername(username) # 0
       THEN /\ resp' = Resp("auth.register_admin", username, admin_code, 0, 400,
                            "Username already registered", "none", 0)
            /\ UNCHANGED users
       ELSE \E i \in FreeUserIds :
            /\ users' = [users EXCEPT ![i] =
                            [present |-> TRUE, username |-> username, email |-> NULL,
                             role |-> "admin", is_active |-> TRUE]]
            /\ resp' = Resp("auth.register_admin", username, admin_code, i, 200, "",
                            "user", i)

\* admin_login with the is_active check made before the password is verified
admin_login_active_first(email, pw_ok) ==
    LET a == AdminByEmail(email) IN
    /\ UNCHANGED <<users, publishers, book_count, books, houses, admins, now>>
    /\ UnchangedOtp
    /\ IF a # 0 /\ ~admins[a].is_active
       THEN /\ resp' = Resp("admin_login", email, "", 0, 400,
                            "Admin account is inactive", "none", 0)
            /\ UNCHANGED tokens
       ELSE IF a = 0 \/ ~pw_ok
       THEN /\ resp' = Resp("admin_login", email, "", 0, 401,
                            "Incorrect email or password", "none", 0)
            /\ UNCHANGED tokens
       ELSE /\ Issue(create_access_token(
                        Claims(admins[a].username, "admin", admins[a].role,
                               IF admins[a].is_super_admin THEN "true" ELSE "false"),
                        ACCESS_TOKEN_EXPIRE_MINUTES, now))
            /\ resp' = Resp("admin_login", email, "", 0, 200, "", "admin", a)

\* admin_auth.admin_login: POST /admin/login; pw_ok is verify_password's answer
admin_login(email, pw_ok) ==
    LET a == AdminByEmail(email) IN
    /\ UNCHANGED <<users, publishers, book_count, books, houses, admins, now>>
    /\ UnchangedOtp
    /\ IF a = 0 \/ ~pw_ok
       THEN /\ resp' = Resp("admin_login", email, "", 0, 401,
                            "Incorrect email or password", "none", 0)
            /\ UNCHANGED tokens
       ELSE IF ~admins[a].is_active
       THEN /\ resp' = Resp("admin_login", email, "", 0, 400,
                            "Admin account is inactive", "none", 0)
            /\ UNCHANGED tokens
       ELSE /\ Issue(create_access_token(
                        Claims(admins[a].username, "admin", admins[a].role,
                               IF admins[a].is_super_admin THEN "true" ELSE "false"),
                        ACCESS_TOKEN_EXPIRE_MINUTES, now))
            /\ resp' = Resp("admin_login", email, "", 0, 200, "", "admin", a)


\* admin_auth.update_admin: PUT /admin/{admin_id}; phone_number NULL is an
\* AdminUpdate without the field.  The permission flags are set to True again.
update_admin(token, admin_id, phone_number) ==
    LET cur == get_current_admin(token) IN
    /\ UNCHANGED <<users, publishers, book_count, books, houses, tokens, now>>
    /\ UnchangedOtp
    /\ IF cur.status # 200
       THEN /\ resp' = Raised("update_admin", token, "", admin_id, cur)
            /\ UNCHANGED admins
       ELSE IF ~admins[admin_id].present
       THEN /\ resp' = Resp("update_admin", token.sub, "", admin_id, 404,
                            "Admin not found", "admin", cur.id)
            /\ UNCHANGED admins
       ELSE /\ admins' = [admins EXCEPT
                            ![admin_id].phone_number =
                                IF phone_number # NULL THEN phone_number ELSE @,
                            ![admin_id].can_manage_users = TRUE,
                            ![admin_id].can_manage_publishers = TRUE,
                            ![admin_id].can_manage_content = TRUE,
                            ![admin_id].can_manage_system = TRUE]
            /\ resp' = Resp("update_admin", token.sub, "", admin_id, 200, "",
                            "admin", cur.id)

\* delete_admin with the self-deletion check left out
delete_admin_self_allowed(token, admin_id) ==
    LET cur == get_current_admin(token) IN
    /\ UNCHANGED <<users, publishers, book_count, books, houses, tokens, now>>
    /\ UnchangedOtp
    /\ IF cur.status # 200
       THEN /\ resp' = Raised("delete_admin", token, "", admin_id, cur)
            /\ UNCHANGED admins
       ELSE IF ~admins[admin_id].present
       THEN /\ resp' = Resp("delete_admin", token.sub, "", admin_id, 404,
                            "Admin not found", "admin", cur.id)
            /\ UNCHANGED admins
       ELSE /\ admins' = [admins EXCEPT ![admin_id] = NoAdmin]
            /\ resp' = Resp("delete_admin", token.sub, "", admin_id, 200,
                            "Admin deleted successfully", "admin", cur.id)

\* admin_auth.delete_admin: DELETE /admin/{admin_id}
delete_admin(token, admin_id) ==
    LET cur == get_current_admin(token) IN
    /\ UNCHANGED <<users, publishers, book_count, books, houses, tokens, now>>
    /\ UnchangedOtp
    /\ IF cur.status # 200
       THEN /\ resp' = Raised("delete_admin", token, "", admin_id, cur)
            /\ UNCHANGED admins
       ELSE IF ~admins[admin_id].present
       THEN /\ resp' = Resp("delete_admin", token.sub, "", admin_id, 404,
                            "Admin not found", "admin", cur.id)
            /\ UNCHANGED admins
       ELSE IF admin_id = cur.id
       THEN /\ resp' = Resp("delete_admin", token.sub, "", admin_id, 400,
                            "Cannot delete your own account", "admin", cur.id)
            /\ UNCHANGED admins
       ELSE /\ admins' = [admins EXCEPT ![admin_id] = NoAdmin]
            /\ resp' = Resp("delete_admin", token.sub, "", admin_id, 200,
                            "Admin deleted successfully", "admin", cur.id)

\* the tables after Base.metadata.create_all on an empty database
InitAdmin ==
    /\ users = [i \in UserIds |-> NoUser]
    /\ publishers = [i \in UserIds |-> 0]
    /\ book_count = [i \in UserIds |-> 0]
    /\ books = [b \in BookIds |-> NoBook]
    /\ houses = [i \in HouseIds |-> NoHouse]
    /\ admins = [i \in AdminIds |-> NoAdmin]
    /\ tokens = {}
    /\ now = 0
    /\ otp_storage = [e \in Emails |-> NoOtp]
    /\ otp_hist = [e \in Emails |-> NoHist]
    /\ resp = NoResp

NextAdmin ==
    \/ \E n \in Names, e \in Emails, p \in Phones, c \in AdminCodes :
          admin_register_admin(n, e, p, c)
    \/ \E n \in Names, c \in AdminCodes : auth_register_admin(n, c)
    \/ \E n \in Names, r \in {"reader", "admin"} : register_user(n, r)
    \/ \E e \in Emails, ok \in BOOLEAN : admin_login(e, ok)
    \/ \E t \in tokens, i \in AdminIds, p \in Phones : update_admin(t, i, p)
    \/ \E t \in tokens, i \in AdminIds : delete_admin(t, i)

SpecAdmin == InitAdmin /\ [][NextAdmin]_vars

\* C6 (as the specification states it): an update or delete of an admin by id,
\* issued by an authenticated admin whose own id is the target id, is answered
\* 403 and leaves the target record unchanged.
C6_SelfStep ==
    ( /\ resp'.op \in {"update_admin", "delete_admin"}
      /\ resp'.kind = "admin"
      /\ resp'.id = resp'.target )
    => /\ resp'.status = 403
       /\ admins'[resp'.target] = admins[resp'.target]

C6_SelfProtection == [][C6_SelfStep]_vars

AdminRegistrationOps == {"admin_auth.register_admin", "auth.register_admin"}

\* C7: a row is inserted into admins, or into users with role admin, only by a
\* register_admin request whose admin code equals ADMIN_CODE; a register_admin
\* request with an empty or different code is answered 403 whatever the tables
\* hold (so before any lookup) and changes neither table.
C7_RegistrationStep ==
    /\ \A i \in AdminIds :
         (~admins[i].present /\ admins'[i].present)
         => resp'.op = "admin_auth.register_admin" /\ resp'.val = ADMIN_CODE
    /\ \A i \in UserIds :
         (~users[i].present /\ users'[i].present /\ users'[i].role = "admin")
         => resp'.op = "auth.register_admin" /\ resp'.val = ADMIN_CODE
    /\ (resp'.op \in AdminRegistrationOps /\ resp'.val # ADMIN_CODE)
         => resp'.status = 403 /\ UNCHANGED <<users, admins>>

C7_AdminCodeGate == [][C7_RegistrationStep]_vars

\* a wrong code was answered 403 although the requested username is taken
\* by an admin who registered with the right code
C7_Witness ==
    /\ resp.op = "admin_auth.register_admin"
    /\ resp.val # ADMIN_CODE
    /\ resp.status = 403
    /\ AdminByUsername(resp.key) # 0

(***************************************************************************)
(* Publisher houses and the unified authenticators:                         *)
(* routers/publisher_auth.py, unified_auth.py, routers/unified_auth.py,     *)
(* security.get_current_unified_user.                                       *)
(***************************************************************************)
FreeHouseIds == NewRowId(HouseIds, {i \in HouseIds : houses[i].present})

\* db.query(PublisherHouse).filter(PublisherHouse.name == n).first(); 0 for None
HouseByName(n) ==
    IF \E i \in HouseIds : houses[i].present /\ houses[i].name = n
    THEN CHOOSE i \in HouseIds : houses[i].present /\ houses[i].name = n
    ELSE 0

\* db.query(PublisherHouse).filter(PublisherHouse.email == e).first(); 0 for None
HouseByEmail(e) ==
    IF \E i \in HouseIds : houses[i].present /\ houses[i].email = e
    THEN CHOOSE i \in HouseIds : houses[i].present /\ houses[i].email = e
    ELSE 0

AdminNotAllowed ==
    AuthOut(403, "Admin authentication not allowed in unified system. Use /admin/login",
            "none", 0)

\* payload.get("entity_type", "user")
entity_type_or_user(token) ==
    IF token.entity_type = "none" THEN "user" ELSE token.entity_type

\* unified_auth.get_unified_user with the admin rejection left out
get_unified_user_accepts_admin(token) ==
    IF ~jwt_decode_ok(token, now) THEN credentials_exception
    ELSE IF token.sub = NULL THEN credentials_exception
    ELSE IF UserByUsername(token.sub) # 0
    THEN AuthOut(200, "", "user", UserByUsername(token.sub))
    ELSE IF HouseByName(token.sub) # 0
    THEN AuthOut(200, "", "publisher", HouseByName(token.sub))
    ELSE credentials_exception

\* unified_auth.get_unified_user: the tag is read only to turn admin tokens
\* away; the subject is looked up in users.username, then in
\* publisher_houses.name
get_unified_user(token) ==
    IF ~jwt_decode_ok(token, now) THEN credentials_exception
    ELSE IF token.sub = NULL THEN credentials_exception
    ELSE IF entity_type_or_user(token) = "admin" THEN AdminNotAllowed
    ELSE IF UserByUsername(token.sub) # 0
    THEN AuthOut(200, "", "user", UserByUsername(token.sub))
    ELSE IF HouseByName(token.sub) # 0
    THEN AuthOut(200, "", "publisher", HouseByName(token.sub))
    ELSE credentials_exception

\* UnifiedUser.is_active of the principal an authenticator resolved
IsActive(out) ==
    IF out.kind = "user" THEN users[out.id].is_active
    ELSE IF out.kind = "publisher" THEN houses[out.id].is_active
    ELSE admins[out.id].is_active

\* unified_auth.get_current_unified_user
unified_get_current_unified_user(token) ==
    LET cur == get_unified_user(token) IN
        IF cur.status # 200 THEN cur
        ELSE IF ~IsActive(cur) THEN AuthOut(400, "Inactive user", "none", 0)
        ELSE cur

\* security.get_current_unified_user: a subject that starts with "publisher_"
\* is a publisher house's email, any other subject a user's email
security_get_current_unified_user(token) ==
    IF ~jwt_decode_ok(token, now) THEN credentials_exception
    ELSE IF token.sub = NULL THEN credentials_exception
    ELSE IF startswith_publisher(token.sub)
    THEN LET h == HouseByEmail(replace_publisher(token.sub)) IN
            IF h = 0 \/ ~houses[h].is_active THEN credentials_exception
            ELSE AuthOut(200, "", "publisher", h)
    ELSE LET u == UserByEmail(token.sub) IN
            IF u = 0 \/ ~users[u].is_active THEN credentials_exception
            ELSE AuthOut(200, "", "user", u)

\* publisher_auth.get_current_publisher_house_from_token
get_current_publisher_house_from_token(token) ==
    IF ~jwt_decode_ok(token, now) THEN credentials_exception
    ELSE IF token.sub = NULL \/ ~startswith_publisher(token.sub) THEN credentials_exception
    ELSE LET h == HouseByEmail(replace_publisher(token.sub)) IN
            IF h = 0 THEN credentials_exception
            ELSE IF ~houses[h].is_active
            THEN AuthOut(400, "Publisher house is inactive", "none", 0)
            ELSE AuthOut(200, "", "publisher", h)

\* publisher_auth.register_publisher_house: POST /publisher/register
register_publisher_house(name, email) ==
    /\ UNCHANGED <<users, publishers, book_count, books, admins, tokens, now>>
    /\ UnchangedOtp
    /\ IF HouseByEmail(email) # 0
       THEN /\ resp' = Resp("register_publisher_house", name, "", 0, 400,
                            "Email already registered", "none", 0)
            /\ UNCHANGED houses
       ELSE IF HouseByName(name) # 0
       THEN /\ resp' = Resp("register_publisher_house", name, "", 0, 400,
                            "Publisher house name already exists", "none", 0)
            /\ UNCHANGED houses
       ELSE \E i \in FreeHouseIds :
            /\ houses' = [houses EXCEPT ![i] =
                            [present |-> TRUE, name |-> name, email |-> email,
                             is_active |-> TRUE, is_verified |-> FALSE]]
            /\ resp' = Resp("register_publisher_house", name, "", i, 200, "",
                            "publisher", i)

\* publisher_auth.login_publisher_house: POST /publisher/login
login_publisher_house(email, pw_ok) ==
    LET h == HouseByEmail(email) IN
    /\ UNCHANGED <<users, publishers, book_count, books, houses, admins, now>>
    /\ UnchangedOtp
    /\ IF h = 0 \/ ~pw_ok
       THEN /\ resp' = Resp("login_publisher_house", email, "", 0, 401,
                            "Incorrect email or password", "none", 0)
            /\ UNCHANGED tokens
       ELSE IF ~houses[h].is_active
       THEN /\ resp' = Resp("login_publisher_house", email, "", 0, 400,
                            "Publisher house account is inactive", "none", 0)
            /\ UNCHANGED tokens
       ELSE /\ Issue(create_access_token(
                        Claims(<<PUBLISHER_PREFIX>> \o houses[h].email, "none", "none", "none"),
                        ACCESS_TOKEN_EXPIRE_MINUTES, now))
            /\ resp' = Resp("login_publisher_house", email, "", 0, 200, "", "publisher", h)

\* admin_auth.update_publisher_status: PUT /admin/publisher-requests/{id}/status;
\* the route has no authentication dependency.  is_verified "none" is the
\* request without that query parameter.
update_publisher_status(publisher_id, is_active, is_verified) ==
    /\ UNCHANGED <<users, publishers, book_count, books, admins, tokens, now>>
    /\ UnchangedOtp
    /\ IF ~houses[publisher_id].present
       THEN /\ resp' = Resp("update_publisher_status", NULL, is_verified, publisher_id, 404,
                            "Publisher house not found", "none", 0)
            /\ UNCHANGED houses
       ELSE /\ houses' = [houses EXCEPT
                            ![publisher_id].is_active = is_active,
                            ![publisher_id].is_verified =
                                IF is_verified = "none" THEN @ ELSE is_verified = "true"]
            /\ resp' = Resp("update_publisher_status", NULL, is_verified, publisher_id, 200,
                            "", "none", 0)

\* routers/unified_auth.unified_login: POST /login.  pw_user and pw_house are
\* verify_password's answers against the user's and the house's hash.
unified_login(username, pw_user, pw_house) ==
    LET u == UserByUsername(username)
        h == HouseByName(username) IN
    /\ UNCHANGED <<users, publishers, book_count, books, houses, admins, now>>
    /\ UnchangedOtp
    /\ IF u # 0 /\ pw_user
       THEN /\ Issue(create_access_token(
                        Claims(users[u].username, "user", users[u].role, "none"),
                        ACCESS_TOKEN_EXPIRE_MINUTES, now))
            /\ resp' = Resp("unified_login", username, "user", 0, 200, "", "user", u)
       ELSE IF h # 0 /\ pw_house
       THEN /\ Issue(create_access_token(
                        Claims(houses[h].name, "publisher", "publisher", "none"),
                        ACCESS_TOKEN_EXPIRE_MINUTES, now))
            /\ resp' = Resp("unified_login", username, "publisher", 0, 200, "",
                            "publisher", h)
       ELSE /\ resp' = Resp("unified_login", username, "", 0, 401,
                            "Incorrect username or password. Note: Admin login is at /admin/login",
                            "none", 0)
            /\ UNCHANGED tokens

\* routers/unified_auth.user_login: POST /login/user
user_login(username, pw_ok) ==
    LET u == UserByUsername(username) IN
    /\ UNCHANGED <<users, publishers, book_count, books, houses, admins, now>>
    /\ UnchangedOtp
    /\ IF u = 0 \/ ~pw_ok
       THEN /\ resp' = Resp("user_login", username, "", 0, 401,
                            "Incorrect username or password", "none", 0)
            /\ UNCHANGED tokens
       ELSE /\ Issue(create_access_token(
                        Claims(users[u].username, "user", users[u].role, "none"),
                        ACCESS_TOKEN_EXPIRE_MINUTES, now))
            /\ resp' = Resp("user_login", username, "user", 0, 200, "", "user", u)

\* routers/unified_auth.publisher_login: POST /login/publisher
publisher_login(username, pw_ok) ==
    LET h == HouseByName(username) IN
    /\ UNCHANGED <<users, publishers, book_count, books, houses, admins, now>>
    /\ UnchangedOtp
    /\ IF h = 0 \/ ~pw_ok
       THEN /\ resp' = Resp("publisher_login", username, "", 0, 401,
                            "Incorrect username or password", "none", 0)
            /\ UNCHANGED tokens
       ELSE /\ Issue(create_access_token(
                        Claims(houses[h].name, "publisher", "publisher", "none"),
                        ACCESS_TOKEN_EXPIRE_MINUTES, now))
            /\ resp' = Resp("publisher_login", username, "publisher", 0, 200, "",
                            "publisher", h)

\* a GET handler that only returns what its authenticator resolved: the
\* response carries the token's subject and tag and the authenticator's outcome
Answer(op, token, out) ==
    /\ resp' = Resp(op, token.sub, token.entity_type, 0, out.status, out.detail,
                    out.kind, out.id)
    /\ UNCHANGED <<users, publishers, book_count, books, houses, admins, tokens, now>>
    /\ UnchangedOtp

\* routers/unified_auth.get_unified_profile: GET /me
get_unified_profile(token) ==
    Answer("get_unified_profile", token, unified_get_current_unified_user(token))

\* read_users_me answering with the role claim of the token
read_users_me_token_role(token) ==
    LET cur == get_current_active_user(token) IN
    /\ resp' = Resp("read_users_me", token.sub,
                    IF cur.status = 200 THEN token.role ELSE "",
                    0, cur.status, cur.detail, cur.kind, cur.id)
    /\ UNCHANGED <<users, publishers, book_count, books, houses, admins, tokens, now>>
    /\ UnchangedOtp

\* routers/auth.read_users_me: GET /me returns the users row the authenticator
\* loaded; the response carries its role
read_users_me(token) ==
    LET cur == get_current_active_user(token) IN
    /\ resp' = Resp("read_users_me", token.sub,
                    IF cur.status = 200 THEN users[cur.id].role ELSE "",
                    0, cur.status, cur.detail, cur.kind, cur.id)
    /\ UNCHANGED <<users, publishers, book_count, books, houses, admins, tokens, now>>
    /\ UnchangedOtp

\* routers/publisher_vacancies.get_my_vacancies: GET /publisher/vacancies/my-vacancies
get_my_vacancies(token) ==
    Answer("get_my_vacancies", token, get_current_publisher_house_from_token(token))

\* routers/admin_auth.get_all_publishers: GET /admin/publishers
get_all_publishers(token) ==
    Answer("get_all_publishers", token, get_current_admin(token))

\* time passes between two requests
Tick ==
    /\ now + ClockStep <= MaxTime
    /\ now' = now + ClockStep
    /\ resp' = Resp("tick", NULL, "", 0, 0, "", "none", 0)
    /\ UNCHANGED <<users, publishers, book_count, books, houses, admins, tokens>>
    /\ UnchangedOtp

(***************************************************************************)
(* Unified login of users and publisher houses, with user management        *)
(* (SpecUnified).  The users table starts as in SpecRole.                   *)
(***************************************************************************)
InitUnified ==
    /\ users = [i \in UserIds |->
                  IF i = 1 THEN SeedUser(<<"n1">>, "reader")
                  ELSE IF i = 2 THEN SeedUser(<<"n2">>, "admin")
                  ELSE NoUser]
    /\ publishers = [i \in UserIds |-> 0]
    /\ book_count = [i \in UserIds |-> 0]
    /\ books = [b \in BookIds |-> NoBook]
    /\ houses = [i \in HouseIds |-> NoHouse]
    /\ admins = [i \in AdminIds |-> NoAdmin]
    /\ tokens = {}
    /\ now = 0
    /\ otp_storage = [e \in Emails |-> NoOtp]
    /\ otp_hist = [e \in Emails |-> NoHist]
    /\ resp = NoResp

NextUnified ==
    \/ \E n \in Names : register_user(n, "reader")
    \/ \E n \in Names, e \in Emails : register_publisher_house(n, e)
    \/ \E n \in Names, ok \in BOOLEAN : login_for_access_token(n, ok)
    \/ \E n \in Names, pu \in BOOLEAN, ph \in BOOLEAN : unified_login(n, pu, ph)
    \/ \E n \in Names, ok \in BOOLEAN : user_login(n, ok)
    \/ \E n \in Names, ok \in BOOLEAN : publisher_login(n, ok)
    \/ \E t \in tokens, i \in UserIds, a \in {"activate", "deactivate", "delete"} :
          manage_user(t, i, a, "")
    \/ \E t \in tokens : get_unified_profile(t)

SpecUnified == InitUnified /\ [][NextUnified]_vars

NextKinds ==
    \/ \E n \in Names : register_user(n, "reader")
    \/ \E n \in Names, e \in Emails : register_publisher_house(n, e)
    \/ \E n \in Names, e \in Emails : admin_register_admin(n, e, NULL, ADMIN_CODE)
    \/ tokens = {} /\ \E n \in Names : login_for_access_token(n, TRUE)
    \/ tokens = {} /\ \E n \in Names, pu \in BOOLEAN : unified_login(n, pu, TRUE)
    \/ tokens = {} /\ \E e \in Emails : login_publisher_house(e, TRUE)
    \/ tokens = {} /\ \E e \in Emails : admin_login(e, TRUE)
    \/ \E t \in tokens : get_unified_profile(t)
    \/ \E t \in tokens : get_all_publishers(t)
    \/ Tick

SpecKinds == InitAdmin /\ [][NextKinds]_vars

\* C8: no issued token is accepted by both get_current_admin and
\* get_unified_user; get_current_admin answers 401 to every token whose tag is
\* not "admin"; get_unified_user turns every token tagged "admin" away, with
\* 403 while the token is unexpired (an expired token is a 401 for both).
C8_KindsDisjoint ==
    \A t \in tokens :
        /\ ~(get_current_admin(t).status = 200 /\ get_unified_user(t).status = 200)
        /\ t.entity_type # "admin" => get_current_admin(t).status = 401
        /\ t.entity_type = "admin" =>
              /\ get_unified_user(t).status # 200
              /\ jwt_decode_ok(t, now) => get_unified_user(t).status = 403

\* an unexpired admin token was answered 403 by the unified authenticator while
\* a user with the token's subject as username exists, and the admin
\* authenticator accepts the token
C8_Witness ==
    /\ resp.op = "get_unified_profile"
    /\ resp.val = "admin"
    /\ resp.status = 403
    /\ UserByUsername(resp.key) # 0
    /\ \E t \in tokens : t.sub = resp.key /\ t.entity_type = "admin"
                         /\ get_current_admin(t).status = 200

(***************************************************************************)
(* Deactivation of principals (SpecActive, SpecActiveDb).  The users table  *)
(* starts as in SpecUnified.  No request handler writes admins.is_active    *)
(* (admin_login reads it): SpecActiveDb adds the write made on the database *)
(* itself.                                                                  *)
(***************************************************************************)
\* UPDATE admins SET is_active = ... WHERE id = admin_id, run on the database
set_admin_is_active(admin_id, is_active) ==
    /\ admins[admin_id].present
    /\ admins' = [admins EXCEPT ![admin_id].is_active = is_active]
    /\ resp' = Resp("set_admin_is_active", NULL, "", admin_id, 0, "", "none", 0)
    /\ UNCHANGED <<users, publishers, book_count, books, houses, tokens, now>>
    /\ UnchangedOtp

NextActive ==
    \/ \E n \in Names, e \in Emails : register_publisher_house(n, e)
    \/ \E n \in Names, e \in Emails : admin_register_admin(n, e, NULL, ADMIN_CODE)
    \/ \E n \in Names : login_for_access_token(n, TRUE)
    \/ \E n \in Names, pu \in BOOLEAN : unified_login(n, pu, TRUE)
    \/ \E e \in Emails, ok \in BOOLEAN : login_publisher_house(e, ok)
    \/ \E e \in Emails, ok \in BOOLEAN : admin_login(e, ok)
    \/ \E t \in tokens, i \in UserIds, a \in {"activate", "deactivate"} :
          manage_user(t, i, a, "")
    \/ \E i \in HouseIds, b \in BOOLEAN : update_publisher_status(i, b, "none")
    \/ \E t \in tokens : get_unified_profile(t)
    \/ \E t \in tokens : read_users_me(t)
    \/ \E t \in tokens : get_my_vacancies(t)
    \/ \E t \in tokens : get_all_publishers(t)

SpecActive == InitUnified /\ [][NextActive]_vars

NextActiveDb ==
    \/ NextActive
    \/ \E i \in AdminIds, b \in BOOLEAN : set_admin_is_active(i, b)

SpecActiveDb == InitUnified /\ [][NextActiveDb]_vars

\* the handlers of these specifications that act for the bearer of a token
AuthenticatedOps ==
    {"get_unified_profile", "read_users_me", "get_my_vacancies", "get_all_publishers",
     "manage_user"}

InactiveNext(out) ==
    IF out.kind = "user"
    THEN /\ users'[out.id] = [users[out.id] EXCEPT !.is_active = FALSE]
    ELSE IF out.kind = "publisher"
    THEN /\ houses'[out.id] = [houses[out.id] EXCEPT !.is_active = FALSE]
    ELSE /\ admins'[out.id] = [admins[out.id] EXCEPT !.is_active = FALSE]

InactiveYields400(out, next_out) ==
    (out.status = 200 /\ InactiveNext(out)) => next_out.status = 400

\* C9 (as the specification states it): once the principal an authenticator
\* resolves a token to is inactive, that authenticator answers the (still
\* unexpired) token with 400, for each of the five authenticators.
C9_InactiveStep ==
    \A t \in tokens :
        /\ InactiveYields400(get_current_active_user(t), get_current_active_user(t)')
        /\ InactiveYields400(unified_get_current_unified_user(t),
                             unified_get_current_unified_user(t)')
        /\ InactiveYields400(get_current_publisher_house_from_token(t),
                             get_current_publisher_house_from_token(t)')
        /\ InactiveYields400(get_current_admin(t), get_current_admin(t)')
        /\ InactiveYields400(security_get_current_unified_user(t),
                             security_get_current_unified_user(t)')

C9_InactiveIs400 == [][C9_InactiveStep]_vars

(***************************************************************************)
(* C11: the ledger holds one entry per email.  A store_otp call replaces   *)
(* the entry of its email by the new code with expiry five minutes after   *)
(* the call and leaves the other emails' entries alone; a verify_otp call  *)
(* succeeds only with the code of the last store_otp call for the email,   *)
(* so the code stored before it no longer verifies unless it is the same.  *)
(***************************************************************************)
C11_StoreStep ==
    /\ resp'.op = "send_otp" =>
          /\ otp_storage'[resp'.key] =
                [present |-> TRUE, otp |-> resp'.val,
                 expires_at |-> now + OTP_EXPIRE_MINUTES]
          /\ \A e \in Emails \ {resp'.key} : otp_storage'[e] = otp_storage[e]
    /\ (resp'.op = "verify_otp" /\ resp'.status = 200) =>
          /\ resp'.val = otp_hist[resp'.key].issued
          /\ now <= otp_hist[resp'.key].stored_at + OTP_EXPIRE_MINUTES

C11_OneEntryPerEmail ==
    /\ [][C11_StoreStep]_vars
    /\ [](\A e \in Emails : otp_storage[e].present =>
              /\ otp_storage[e].otp = otp_hist[e].issued
              /\ otp_storage[e].expires_at = otp_hist[e].stored_at + OTP_EXPIRE_MINUTES)

\* after a second store with another code, at a later time, the first code was
\* presented while the second is unexpired, and was refused; the entry of the
\* second store is still there
C11_Witness ==
    /\ resp.op = "verify_otp"
    /\ resp.status = 400
    /\ resp.val = otp_hist[resp.key].prev
    /\ resp.val # otp_hist[resp.key].issued
    /\ otp_hist[resp.key].stored_at > 0
    /\ now <= otp_hist[resp.key].stored_at + OTP_EXPIRE_MINUTES
    /\ otp_storage[resp.key].present
    /\ otp_storage[resp.key].otp = otp_hist[resp.key].issued

(***************************************************************************)
(* C12: requests for the same email that arrive together.  send_otp and    *)
(* verify_otp_endpoint are `async def` handlers that call store_otp and    *)
(* verify_otp with no await in between, and the application runs in one    *)
(* uvicorn worker (start.py: workers=1): the event loop runs each call to  *)
(* its end before the next, in an order of its choosing.  That is a step   *)
(* of NextOtp per call, in any order.  A verify_otp call reads, checks and *)
(* deletes in one step and answers 200 or 400, never an internal error; at *)
(* most one verify succeeds per stored code; the entry that remains is     *)
(* that of the last store.                                                 *)
(***************************************************************************)
C12_VerifyStep ==
    resp'.op = "verify_otp" =>
        /\ resp'.status \in {200, 400}
        /\ resp'.status = 200 =>
              /\ otp_storage[resp'.key].present
              /\ otp_storage[resp'.key].otp = resp'.val
              /\ ~otp_storage'[resp'.key].present
              /\ otp_hist'[resp'.key].hits = 1
        /\ \A e \in Emails \ {resp'.key} : otp_storage'[e] = otp_storage[e]

C13_AdminFlagsConsistent ==
    \A i \in AdminIds : admins[i].present =>
        /\ admins[i].role = "super_admin"
        /\ admins[i].is_super_admin
        /\ admins[i].can_manage_users
        /\ admins[i].can_manage_publishers
        /\ admins[i].can_manage_content
        /\ admins[i].can_manage_system

\* an admin has updated the phone number of another admin's record
C13_Witness ==
    /\ resp.op = "update_admin"
    /\ resp.status = 200
    /\ resp.target # resp.id
    /\ admins[resp.target].present
    /\ admins[resp.target].phone_number # NULL
    /\ admins[resp.id].present

(***************************************************************************)
(* Self-promotion to writer and the /me endpoint (SpecWriter).  The users  *)
(* table starts as in SpecRole.  unified_login puts the user's role of the *)
(* moment in the token; /login puts no role in it.                         *)
(***************************************************************************)
NextWriter ==
    \/ \E n \in Names, ok \in BOOLEAN : login_for_access_token(n, ok)
    \/ \E n \in Names, pu \in BOOLEAN : unified_login(n, pu, FALSE)
    \/ \E t \in tokens : upgrade_to_writer(t)
    \/ \E t \in tokens : read_users_me(t)
    \/ \E t \in tokens, i \in UserIds, a \in {"activate", "deactivate", "change_role"} :
          \E r \in NewRolesFor(a) : manage_user(t, i, a, r)

SpecWriter == InitRole /\ [][NextWriter]_vars

\* C14: an upgrade_to_writer request of an authenticated active user succeeds
\* and stores role writer if the stored role is reader, and is answered 400 with
\* the table unchanged otherwise; a /me request answers with the role stored at
\* the time of the request, so a /me request after the upgrade, made with the
\* token issued before it, reports writer.
C14_UpgradeStep ==
    /\ (resp'.op = "upgrade_to_writer" /\ resp'.kind = "user") =>
          IF users[resp'.id].role = "reader"
          THEN /\ resp'.status = 200
               /\ users' = [users EXCEPT ![resp'.id].role = "writer"]
          ELSE /\ resp'.status = 400
               /\ users' = users
    /\ (resp'.op = "read_users_me" /\ resp'.status = 200) =>
          /\ resp'.val = users[resp'.id].role
          /\ (resp.op = "upgrade_to_writer" /\ resp.status = 200 /\ resp.id = resp'.id)
             => resp'.val = "writer"

C15_TokenClaimsComplete ==
    \A t \in tokens :
        /\ t.sub # NULL
        /\ t.entity_type # "none"
        /\ t.role # "none"
        /\ t.exp > 0

(***************************************************************************)
(* The token codec (SpecCodec): create_access_token applied to claim sets  *)
(* and lifetimes a caller may pass, the clock advancing by minutes, and    *)
(* the authenticators decoding what was issued.  The users table starts as *)
(* in SpecUnified.  One token is followed at a time.                       *)
(***************************************************************************)
\* lifetimes in minutes; 0 is the falsy expires_delta
Ttls == {0, 1, 3, ACCESS_TOKEN_EXPIRE_MINUTES}

ClaimSets ==
    {Claims(s, e, r, "none") : s \in {<<"n1">>, <<"e1">>}, e \in {"none", "admin"},
                               r \in {"none", "reader"}}

\* a caller encodes a claim set and hands the token out
issue_token(data, expires_delta) ==
    /\ Issue(create_access_token(data, expires_delta, now))
    /\ resp' = Resp("create_access_token", data.sub, data.entity_type, expires_delta,
                    200, "", "none", 0)
    /\ UNCHANGED <<users, publishers, book_count, books, houses, admins, now>>
    /\ UnchangedOtp

NextCodec ==
    \/ tokens = {} /\ \E c \in ClaimSets, ttl \in Ttls : issue_token(c, ttl)
    \/ \E t \in tokens : read_users_me(t)
    \/ \E t \in tokens : get_unified_profile(t)
    \/ \E t \in tokens : get_all_publishers(t)
    \/ TickMinute

SpecCodec == InitUnified /\ [][NextCodec]_vars

MaxHeaderLen == 4

BEARER_PREFIX == "Bearer "
HeaderChunks == {BEARER_PREFIX, "Basic ", "tok"}
Headers == {NULL} \cup UNION {[1..n -> HeaderChunks] : n \in 0..MaxHeaderLen}

\* what the dependency yields (status 200) or the HTTPException it raises
BearerOut(status, detail, token) ==
    [status |-> status, detail |-> detail, token |-> token,
     www_authenticate |-> IF status = 200 THEN "" ELSE "Bearer"]

\* str.startswith("Bearer ")
startswith_bearer(s) == Len(s) > 0 /\ s[1] = BEARER_PREFIX

\* str.replace("Bearer ", ""): every occurrence goes, not only the leading one
replace_bearer(s) == SelectSeq(s, LAMBDA c : c # BEARER_PREFIX)

\* get_bearer_token that takes the leading prefix off and nothing else
get_bearer_token_removeprefix(authorization) ==
    IF authorization = NULL \/ authorization = <<>>
    THEN BearerOut(401, "Authorization header missing", <<>>)
    ELSE IF ~startswith_bearer(authorization)
    THEN BearerOut(401, "Invalid authorization header format. Use 'Bearer <token>'", <<>>)
    ELSE IF Tail(authorization) = <<>>
    THEN BearerOut(401, "Token missing", <<>>)
    ELSE BearerOut(200, "", Tail(authorization))

\* security.get_bearer_token
security_get_bearer_token(authorization) ==
    IF authorization = NULL \/ authorization = <<>>
    THEN BearerOut(401, "Authorization header missing", <<>>)
    ELSE IF ~startswith_bearer(authorization)
    THEN BearerOut(401, "Invalid authorization header format. Use 'Bearer <token>'", <<>>)
    ELSE IF replace_bearer(authorization) = <<>>
    THEN BearerOut(401, "Token missing", <<>>)
    ELSE BearerOut(200, "", replace_bearer(authorization))

\* routers/admin_auth.get_bearer_token: no check for an empty token
admin_get_bearer_token(authorization) ==
    IF authorization = NULL \/ authorization = <<>>
    THEN BearerOut(401, "Authorization header missing", <<>>)
    ELSE IF ~startswith_bearer(authorization)
    THEN BearerOut(401, "Invalid authorization header format", <<>>)
    ELSE BearerOut(200, "", replace_bearer(authorization))

\* a request with the header reaches the dependency
bearer_request(op, authorization, out) ==
    /\ resp' = Resp(op, authorization, out.token, 0, out.status, out.detail, "none", 0)
    /\ UNCHANGED <<users, publishers, book_count, books, houses, admins, tokens, now>>
    /\ UnchangedOtp

NextBearer ==
    \/ \E h \in Headers :
          bearer_request("security.get_bearer_token", h, security_get_bearer_token(h))
    \/ \E h \in Headers :
          bearer_request("admin_auth.get_bearer_token", h, admin_get_bearer_token(h))

SpecBearer == InitAdmin /\ [][NextBearer]_vars

\* the header is "Bearer " followed by a non-empty token
WellFormedHeader(h) == h # NULL /\ Len(h) >= 2 /\ h[1] = BEARER_PREFIX

\* C17 (as the specification states it): get_bearer_token yields a token
\* exactly for the headers made of "Bearer " and a non-empty token, the token
\* being the header without that leading prefix; every other header is
\* answered 401 with WWW-Authenticate: Bearer.
C17_BearerToken ==
    resp.op \in {"security.get_bearer_token", "admin_auth.get_bearer_token"} =>
        LET h == resp.key
            out == IF resp.op = "security.get_bearer_token"
                   THEN security_get_bearer_token(h)
                   ELSE admin_get_bearer_token(h)
        IN  /\ resp.status = out.status
            /\ resp.val = out.token
            /\ (out.status = 200) <=> WellFormedHeader(h)
            /\ out.status = 200 => out.token = Tail(h)
            /\ out.status # 200 => (out.status = 401 /\ out.www_authenticate = "Bearer")

(***************************************************************************)
(* C18 (as the specification states it): the authenticators that read the  *)
(* subject and the principal-kind tag of a token deny every token that     *)
(* lacks one of them; a token without entity_type is accepted as no kind   *)
(* of principal.                                                           *)
(***************************************************************************)
C18_FailClosed ==
    \A t \in tokens :
        (t.sub = NULL \/ t.entity_type = "none") =>
            /\ get_unified_user(t).status # 200
            /\ unified_get_current_unified_user(t).status # 200
            /\ get_current_admin(t).status # 200

(***************************************************************************)
(* The four login handlers against stores in which the login key exists,   *)
(* exists with an inactive row, or does not exist (SpecLogin).  The users  *)
(* table starts as in SpecUnified; one token is followed at a time.        *)
(***************************************************************************)
NextLogin ==
    \/ \E n \in Names, e \in Emails : register_publisher_house(n, e)
    \/ \E n \in Names, e \in Emails : admin_register_admin(n, e, NULL, ADMIN_CODE)
    \/ \E i \in HouseIds, b \in BOOLEAN : update_publisher_status(i, b, "none")
    \/ \E i \in AdminIds, b \in BOOLEAN : set_admin_is_active(i, b)
    \/ \E n \in Names, ok \in BOOLEAN :
          (tokens = {} \/ ~ok) /\ login_for_access_token(n, ok)
    \/ \E n \in Names, pu \in BOOLEAN, ph \in BOOLEAN :
          (tokens = {} \/ (~pu /\ ~ph)) /\ unified_login(n, pu, ph)
    \/ \E e \in Emails, ok \in BOOLEAN :
          (tokens = {} \/ ~ok) /\ login_publisher_house(e, ok)
    \/ \E e \in Emails, ok \in BOOLEAN :
          (tokens = {} \/ ~ok) /\ admin_login(e, ok)

SpecLogin == InitUnified /\ [][NextLogin]_vars

\* the one response a login handler gives to credentials it does not accept
LoginRefused(op, detail) ==
    /\ resp'.op = op
    /\ resp'.status = 401
    /\ resp'.detail = detail
    /\ resp'.val = ""
    /\ resp'.kind = "none"
    /\ resp'.id = 0

C20_UpgradeOnceStep ==
    resp'.op \in UpgradeToPublisherOps =>
        /\ resp'.status = 200 =>
              /\ users[resp'.id].role # "publisher"
              /\ users'[resp'.id].role = "publisher"
              /\ \A i \in UserIds \ {resp'.id} : users'[i] = users[i]
        /\ resp'.status # 200 =>
              /\ users' = users
              /\ publishers' = publishers
        /\ (resp'.kind = "user" /\ users[resp'.id].role = "publisher") =>
              /\ resp'.status = 400
              /\ users'[resp'.id].role = "publisher"

Titles == {"t1", "t2"}
Prices == {NoPrice, 0, 5}
PDF == "application/pdf"
Uploads == {[content_type |-> PDF, name |-> "f1"],
            [content_type |-> PDF, name |-> "f2"],
            [content_type |-> "image/png", name |-> "f3"]}
Covers == {"c1", "c2"}
AuthorNames == {NULL, <<"a1">>}

\* db.query(Book).filter(Book.title == title).first(); 0 for None
BookByTitle(title) ==
    IF \E b \in BookIds : books[b].present /\ books[b].title = title
    THEN CHOOSE b \in BookIds :
            /\ books[b].present /\ books[b].title = title
            /\ \A c \in BookIds : (books[c].present /\ books[c].title = title) => b <= c
    ELSE 0

FreeBookIds == NewRowId(BookIds, {b \in BookIds : books[b].present})

\* the handlers without the owner-or-admin test
not_authorized_never(book, current_user) == FALSE

\* the owner-or-admin test of the book handlers
\* (book.author_id != current_user.id and current_user.role != UserRole.admin)
not_authorized(book, current_user) ==
    book.author_id # current_user /\ users[current_user].role # "admin"

\* books.create_book_with_file: POST /books/with-file
books_create_book_with_file(token, title, is_free, price, author_name, book_file, cover_image, categories_found) ==
    LET cur == get_current_active_user(token)
        op == "books.create_book_with_file"
        refuse(detail) ==
            /\ resp' = Resp(op, token.sub, title, 0, 400, detail, "user", cur.id)
            /\ UNCHANGED <<book_count, books>>
    IN
    /\ UNCHANGED <<users, publishers, houses, admins, tokens, now>>
    /\ UnchangedOtp
    /\ IF cur.status # 200
       THEN /\ resp' = Raised(op, token, title, 0, cur)
            /\ UNCHANGED <<book_count, books>>
       ELSE IF book_file.content_type # PDF
       THEN refuse("Book file must be a PDF file. Only PDF files are allowed.")
       ELSE IF ~is_free /\ (price = NoPrice \/ price = 0)
       THEN refuse("Price is required for paid books")
       ELSE IF BookByTitle(title) # 0
       THEN refuse("Book title must be unique")
       ELSE IF ~categories_found
       THEN refuse("Categories not found")
       ELSE IF users[cur.id].role # "writer" /\ author_name = NULL
       THEN refuse("Author name is required ")
       ELSE \E b \in FreeBookIds :
            LET writer == users[cur.id].role = "writer" IN
            /\ books' = [books EXCEPT ![b] =
                            [present |-> TRUE, title |-> title, is_free |-> is_free,
                             price |-> IF is_free THEN 0 ELSE price,
                             author_name |-> IF writer THEN users[cur.id].username
                                             ELSE author_name,
                             author_id |-> IF writer THEN cur.id ELSE 0,
                             publisher_house_id |-> IF writer THEN 0 ELSE cur.id,
                             cover_image |-> cover_image,
                             book_file |-> book_file.name]]
            /\ book_count' = IF writer THEN [book_count EXCEPT ![cur.id] = @ + 1]
                             ELSE book_count
            /\ resp' = Resp(op, token.sub, title, b, 200, "", "user", cur.id)

\* books.upload_book_cover: POST /books/{book_id}/upload-cover
upload_book_cover(token, book_id, file) ==
    LET cur == get_current_active_user(token)
        op == "upload_book_cover"
    IN
    /\ UNCHANGED <<users, publishers, book_count, houses, admins, tokens, now>>
    /\ UnchangedOtp
    /\ IF cur.status # 200
       THEN /\ resp' = Raised(op, token, file, book_id, cur)
            /\ UNCHANGED books
       ELSE IF ~books[book_id].present
       THEN /\ resp' = Resp(op, token.sub, file, book_id, 404, "Book not found",
                            "user", cur.id)
            /\ UNCHANGED books
       ELSE IF not_authorized(books[book_id], cur.id)
       THEN /\ resp' = Resp(op, token.sub, file, book_id, 403,
                            "Not authorized to update this book", "user", cur.id)
            /\ UNCHANGED books
       ELSE /\ books' = [books EXCEPT ![book_id].cover_image = file]
            /\ resp' = Resp(op, token.sub, file, book_id, 200,
                            "Book cover uploaded successfully", "user", cur.id)

\* books.upload_book_file: POST /books/{book_id}/upload-file
upload_book_file(token, book_id, file) ==
    LET cur == get_current_active_user(token)
        op == "upload_book_file"
    IN
    /\ UNCHANGED <<users, publishers, book_count, houses, admins, tokens, now>>
    /\ UnchangedOtp
    /\ IF cur.status # 200
       THEN /\ resp' = Raised(op, token, file.name, book_id, cur)
            /\ UNCHANGED books
       ELSE IF file.content_type # PDF
       THEN /\ resp' = Resp(op, token.sub, file.name, book_id, 400,
                            "Book file must be a PDF file. Only PDF files are allowed.",
                            "user", cur.id)
            /\ UNCHANGED books
       ELSE IF ~books[book_id].present
       THEN /\ resp' = Resp(op, token.sub, file.name, book_id, 404, "Book not found",
                            "user", cur.id)
            /\ UNCHANGED books
       ELSE IF not_authorized(books[book_id], cur.id)
       THEN /\ resp' = Resp(op, token.sub, file.name, book_id, 403,
                            "Not authorized to update this book", "user", cur.id)
            /\ UNCHANGED books
       ELSE /\ books' = [books EXCEPT ![book_id].book_file = file.name]
            /\ resp' = Resp(op, token.sub, file.name, book_id, 200,
                            "Book file uploaded successfully", "user", cur.id)

\* schemas.BookUpdate, for its title, is_free and price: `fields` is the set
\* of fields the request body gives (pydantic's __fields_set__), and a field
\* it does not give reads None
BookUpdate(fields, title, is_free, price) ==
    [fields |-> fields,
     title |-> IF "title" \in fields THEN title ELSE "t1",
     is_free |-> IF "is_free" \in fields THEN is_free ELSE FALSE,
     price |-> IF "price" \in fields THEN price ELSE NoPrice]

\* books.update_book_by_title: PUT /books/{title}.  The fields are assigned to
\* the row before the categories are looked up; the HTTPException of that
\* lookup ends the request without a commit.
update_book_by_title(token, title, book_update, categories_found) ==
    LET cur == get_current_active_user(token)
        op == "update_book_by_title"
        b == BookByTitle(title)
        free == "is_free" \in book_update.fields /\ book_update.is_free
        \* book_update.price = 0 also marks the field as given
        given == IF free THEN book_update.fields \cup {"price"} ELSE book_update.fields
        db_book == [books[b] EXCEPT
                        !.title = IF "title" \in given THEN book_update.title ELSE @,
                        !.is_free = IF "is_free" \in given THEN book_update.is_free ELSE @,
                        !.price = IF free THEN 0
                                  ELSE IF "price" \in given THEN book_update.price ELSE @]
    IN
    /\ UNCHANGED <<users, publishers, book_count, houses, admins, tokens, now>>
    /\ UnchangedOtp
    /\ IF cur.status # 200
       THEN /\ resp' = Raised(op, token, title, 0, cur)
            /\ UNCHANGED books
       ELSE IF b = 0
       THEN /\ resp' = Resp(op, token.sub, title, 0, 404, "Book not found",
                            "user", cur.id)
            /\ UNCHANGED books
       ELSE IF not_authorized(books[b], cur.id)
       THEN /\ resp' = Resp(op, token.sub, title, b, 403,
                            "Not authorized to update this book", "user", cur.id)
            /\ UNCHANGED books
       ELSE IF /\ "is_free" \in book_update.fields
               /\ ~book_update.is_free
               /\ book_update.price \in {NoPrice, 0}
       THEN /\ resp' = Resp(op, token.sub, title, b, 400,
                            "Price is required for paid books", "user", cur.id)
            /\ UNCHANGED books
       ELSE IF ~categories_found
       THEN /\ books' = session_close(books, [books EXCEPT ![b] = db_book])
            /\ resp' = Resp(op, token.sub, title, b, 400,
                            "One or more categories not found", "user", cur.id)
       ELSE /\ books' = [books EXCEPT ![b] = db_book]
            /\ resp' = Resp(op, token.sub, title, b, 200, "", "user", cur.id)

\* books.delete_book: DELETE /books/{book_id}
books_delete_book(token, book_id) ==
    LET cur == get_current_active_user(token)
        op == "books.delete_book"
    IN
    /\ UNCHANGED <<users, publishers, houses, admins, tokens, now>>
    /\ UnchangedOtp
    /\ IF cur.status # 200
       THEN /\ resp' = Raised(op, token, "", book_id, cur)
            /\ UNCHANGED <<book_count, books>>
       ELSE IF ~books[book_id].present
       THEN /\ resp' = Resp(op, token.sub, "", book_id, 404, "Book not found",
                            "user", cur.id)
            /\ UNCHANGED <<book_count, books>>
       ELSE IF not_authorized(books[book_id], cur.id)
       THEN /\ resp' = Resp(op, token.sub, "", book_id, 403,
                            "Not authorized to delete this book", "user", cur.id)
            /\ UNCHANGED <<book_count, books>>
       ELSE /\ books' = [books EXCEPT ![book_id] = NoBook]
            /\ book_count' = IF books[book_id].author_id \in UserIds
                             THEN [book_count EXCEPT ![books[book_id].author_id] = @ - 1]
                             ELSE book_count
            /\ resp' = Resp(op, token.sub, "", book_id, 200,
                            "Book deleted successfully", "user", cur.id)

BookUpdates ==
    {BookUpdate(f, t, fr, p) :
        f \in SUBSET {"title", "is_free", "price"}, t \in Titles,
        fr \in BOOLEAN, p \in Prices}

(***************************************************************************)
(* Ownership of books (SpecOwner).  The users table starts with two rows   *)
(* seeded as in SpecRole: the writer n1, and n2 who is a reader or an      *)
(* admin.                                                                  *)
(***************************************************************************)
InitOwner ==
    /\ \E r \in {"reader", "admin"} :
         users = [i \in UserIds |->
                    IF i = 1 THEN SeedUser(<<"n1">>, "writer")
                    ELSE IF i = 2 THEN SeedUser(<<"n2">>, r)
                    ELSE NoUser]
    /\ publishers = [i \in UserIds |-> 0]
    /\ book_count = [i \in UserIds |-> 0]
    /\ books = [b \in BookIds |-> NoBook]
    /\ houses = [i \in HouseIds |-> NoHouse]
    /\ admins = [i \in AdminIds |-> NoAdmin]
    /\ tokens = {}
    /\ now = 0
    /\ otp_storage = [e \in Emails |-> NoOtp]
    /\ otp_hist = [e \in Emails |-> NoHist]
    /\ resp = NoResp

NextOwner ==
    \/ \E n \in Names : login_for_access_token(n, TRUE)
    \/ \E t \in tokens, title \in Titles :
          books_create_book_with_file(t, title, TRUE, NoPrice, <<"a1">>,
                                      [content_type |-> PDF, name |-> "f1"], "", TRUE)
    \/ \E t \in tokens, title \in Titles, new \in Titles :
          update_book_by_title(t, title, BookUpdate({"title"}, new, FALSE, NoPrice), TRUE)
    \/ \E t \in tokens, b \in BookIds : books_delete_book(t, b)
    \/ \E t \in tokens, b \in BookIds : upload_book_cover(t, b, "c1")
    \/ \E t \in tokens, b \in BookIds, f \in Uploads \ {[content_type |-> PDF, name |-> "f1"]} :
          upload_book_file(t, b, f)

SpecOwner == InitOwner /\ [][NextOwner]_vars

BookOps == {"update_book_by_title", "books.delete_book", "upload_book_cover",
            "upload_book_file"}

\* the request that made resp' named an existing book, and its caller is
\* neither the book's author_id nor of role admin
C21_NotOwnerNorAdmin ==
    /\ resp'.op \in BookOps
    /\ resp'.kind = "user"
    /\ resp'.target \in BookIds
    /\ books[resp'.target].present
    /\ books[resp'.target].author_id # resp'.id
    /\ users[resp'.id].role # "admin"

NextStatus ==
    \/ \E n \in Names, e \in Emails : register_publisher_house(n, e)
    \/ \E n \in Names, e \in Emails : admin_register_admin(n, e, NULL, ADMIN_CODE)
    \/ \E e \in Emails, ok \in BOOLEAN : admin_login(e, ok)
    \/ \E e \in Emails, ok \in BOOLEAN : login_publisher_house(e, ok)
    \/ \E i \in HouseIds, b \in BOOLEAN, v \in {"none", "true", "false"} :
          update_publisher_status(i, b, v)
    \/ \E t \in tokens : get_my_vacancies(t)

SpecStatus == InitUnified /\ [][NextStatus]_vars

(***************************************************************************)
(* C22: a step of the publisher-requests status endpoint changes a         *)
(* publisher house's is_active or is_verified flag only if the request     *)
(* authenticated as an admin.                                              *)
(***************************************************************************)
C22_StatusByAdminOnly ==
    [][(/\ resp'.op = "update_publisher_status"
        /\ \E i \in HouseIds :
              \/ houses'[i].is_active # houses[i].is_active
              \/ houses'[i].is_verified # houses[i].is_verified)
         => resp'.kind = "admin"]_vars

(***************************************************************************)
(* Book creation by users and publisher houses (SpecPublish): the logins   *)
(* of both, the registration of houses, and POST /books/with-file.         *)
(***************************************************************************)
NextPublish ==
    \/ \E n \in Names, e \in Emails : register_publisher_house(n, e)
    \/ \E e \in Emails, ok \in BOOLEAN : login_publisher_house(e, ok)
    \/ \E n \in Names, ok \in BOOLEAN : login_for_access_token(n, ok)
    \/ \E t \in tokens : upgrade_to_writer(t)
    \/ \E t \in tokens, is_free \in BOOLEAN, price \in Prices, a \in AuthorNames,
          f \in {u \in Uploads : u.name # "f2"}, ok \in BOOLEAN :
          books_create_book_with_file(t, "t1", is_free, price, a, f, "", ok)

SpecPublish == InitUnified /\ [][NextPublish]_vars

\* the publisher house a subject of the form "publisher_" + email names; 0 for none
HouseOfSubject(sub) ==
    IF startswith_publisher(sub) THEN HouseByEmail(replace_publisher(sub)) ELSE 0

(***************************************************************************)
(* C23: a book-creation request made with the token of a publisher-house   *)
(* login (subject "publisher_" + email of an existing, active house) is    *)
(* authenticated, and when it succeeds the stored book has the given       *)
(* author_name and the house's id as publisher_house_id.                   *)
(***************************************************************************)
C23_PublisherCreatesBook ==
    [][(/\ resp'.op = "books.create_book_with_file"
        /\ HouseOfSubject(resp'.key) # 0
        /\ houses[HouseOfSubject(resp'.key)].is_active)
         => /\ resp'.status # 401
            /\ resp'.status = 200 =>
                 /\ books'[resp'.target].publisher_house_id = HouseOfSubject(resp'.key)
                 /\ books'[resp'.target].author_name \in AuthorNames \ {NULL}]_vars

(***************************************************************************)
(* The catalogue of one writer (SpecCatalog): after /login, the creation   *)
(* and the update of books with every combination of title, is_free and    *)
(* price.  One token is issued.                                            *)
(***************************************************************************)
login_once(username, pw_ok) ==
    /\ tokens = {}
    /\ login_for_access_token(username, pw_ok)

NextCatalog ==
    \/ \E n \in Names, ok \in BOOLEAN : login_once(n, ok)
    \/ \E t \in tokens, title \in Titles, is_free \in BOOLEAN, price \in Prices,
          ok \in BOOLEAN :
          books_create_book_with_file(t, title, is_free, price, <<"a1">>,
                                      [content_type |-> PDF, name |-> "f1"], "", ok)
    \/ \E t \in tokens, title \in Titles, u \in BookUpdates, ok \in BOOLEAN :
          update_book_by_title(t, title, u, ok)

SpecCatalog == InitRole /\ [][NextCatalog]_vars

C26_PublisherTokenNeverUser ==
    \A t \in tokens :
        t.entity_type = "publisher" =>
            LET out == get_unified_user(t) IN
                /\ out.kind # "user"
                /\ out.status = 200 =>
                     out.kind = "publisher" /\ houses[out.id].name = t.sub

(***************************************************************************)
(* Users whose name begins with "publisher_" (SpecPrefix).  The database   *)
(* starts empty; users register under any name, publisher houses register, *)
(* and only users log in: every token of this specification was issued by  *)
(* POST /login to a User.                                                  *)
(***************************************************************************)
PrefixNames == Names \cup {<<PUBLISHER_PREFIX, "e1">>}

NextPrefix ==
    \/ \E n \in PrefixNames : register_user(n, "reader")
    \/ \E n \in Names, e \in Emails : register_publisher_house(n, e)
    \/ \E n \in PrefixNames, ok \in BOOLEAN : login_for_access_token(n, ok)
    \/ \E t \in tokens : get_my_vacancies(t)

SpecPrefix == InitAdmin /\ [][NextPrefix]_vars

(***************************************************************************)
(* C27: the prefix-based authenticators (security.get_current_unified_user *)
(* and get_current_publisher_house_from_token) never resolve a token that  *)
(* was issued to a User as a publisher house.                              *)
(***************************************************************************)
C27_UserTokenNeverHouse ==
    \A t \in tokens :
        /\ get_current_publisher_house_from_token(t).kind # "publisher"
        /\ security_get_current_unified_user(t).kind # "publisher"

LiveEntry(email) ==
    otp_storage[email].present /\ now <= otp_storage[email].expires_at

(***************************************************************************)
(* C29: a verify_otp call with a wrong code against an existing, unexpired *)
(* entry returns false and leaves the ledger as it was; the ledger counts  *)
(* no attempts, so whatever calls came before, a verify_otp call with the  *)
(* stored code succeeds for as long as the entry is unexpired.             *)
(***************************************************************************)
C29_WrongCodeStep ==
    (/\ resp'.op = "verify_otp"
     /\ LiveEntry(resp'.key)
     /\ resp'.val # otp_storage[resp'.key].otp)
        => /\ resp'.status = 400
           /\ otp_storage' = otp_storage

C29_WrongCodeKeepsEntry ==
    /\ [][C29_WrongCodeStep]_vars
    /\ [](\A e \in Emails :
            LiveEntry(e) =>
                ENABLED (/\ verify_otp_endpoint(e, otp_storage[e].otp)
                         /\ resp'.status = 200))

\* a wrong code has just been refused and the entry is still there, unexpired,
\* with the code that was issued
C29_Witness ==
    /\ resp.op = "verify_otp"
    /\ resp.status = 400
    /\ LiveEntry(resp.key)
    /\ resp.val # otp_storage[resp.key].otp
    /\ otp_storage[resp.key].otp = otp_hist[resp.key].issued

====
